---------------------------- MODULE Spec2Model ----------------------------
(***************************************************************************)
(* CareScore simulation engine of the Pulse AI front end                   *)
(* (src/frontend/src/lib/api.ts, lines 548-674).                           *)
(*                                                                         *)
(* calculateCareScore is a pure function of one HealthMetric sample and of *)
(* one draw of Math.random().  The JavaScript numbers are modelled in      *)
(* exact fixed point:                                                      *)
(*   - a metric value v is the integer v * Unit  (grid of 1/Unit);         *)
(*   - a score component s (severity, persistence, the sum that is         *)
(*     rounded) is the integer s * SC, SC = 10 * Unit, which represents    *)
(*     (v - 70) / 10, (.) * 5 and (.) * 0.6 without remainder;             *)
(*   - Math.random() is r / RandSteps for r in 0 .. RandSteps - 1, and     *)
(*     confidence is kept scaled by RandSteps.                             *)
(* The only caller (Dashboard.loadSimulationData, Insights.tsx:407-421)    *)
(* passes a generated sample, whose fields are finite numbers, so NaN is   *)
(* not among the inputs; negative (out-of-domain) values are.              *)
(***************************************************************************)
EXTENDS Integers, Sequences, FiniteSets

\* Calls of calculateCareScore on one sample.
VARIABLES metric, result, earlier, between
\* Dashboard.loadSimulationData: the position in it, the loop of
\* generateSimulationData, the wall clock, the state of Math.random(), the
\* objects created so far and the Dashboard's React state.
VARIABLES pc, i, data, drifts, clock, ticked, rng, heap, simData, scored,
          chart, analysis, isUsingRealData, loads
\* The baseline reference a caller of the scoring has in mind.
VARIABLES supplied
\* A second sample scored by calculateCareScore, and what that call returned.
VARIABLES second, resultSecond

scoreVars == <<metric, result, earlier, between>>

simVars == <<pc, i, data, drifts, clock, ticked, rng, heap, simData, scored,
             chart, analysis, isUsingRealData, loads>>

\* Dashboard.loadDashboardData: the position in it, authService.getUserId()
\* as read by the component, what the two requests resolved to, the React
\* state isLoading and summary, and the number of completed simulation loads
\* when loadSimulationData was called.
VARIABLES run, userId, summaryData, trendsData, isLoading, summary,
          loadsAtCall

\* Authentication: the browser's localStorage, the login or signup call in
\* flight and what the latest completed operation was; the Settings page
\* (its position, its user state and the profile captured by a save in
\* flight); AuthProvider (its user and isLoading state, the position of
\* initAuth and its locals storedUser and isValid).
VARIABLES storage, authPc, lastOp, settingsPc, settingsUser, pending,
          ctxUser, authLoading, initPc, storedUser, isValid

pairVars == <<second, resultSecond>>

authVars == <<storage, authPc, lastOp, settingsPc, settingsUser, pending,
              ctxUser, authLoading, initPc, storedUser, isValid>>

dashVars == <<run, userId, summaryData, trendsData, isLoading, summary,
              loadsAtCall>>

\* The state outside calculateCareScore(metric) and loadSimulationData.
extVars == <<pairVars, dashVars, authVars>>

vars == <<scoreVars, simVars, supplied, extVars>>

(***************************** bounds *************************************)
\* Math.random() takes the values 0/RandSteps .. (RandSteps-1)/RandSteps.
RandSteps == 3
\* Metric values lie on a grid of 1 / Unit.  Unit is a multiple of 8 (the
\* sample 70.625), of 30 (the drift factor (i - 30) / 30) and of
\* 2 * RandSteps (the noise (Math.random() - 0.5) * scale), so that every
\* value the generator and the scoring produce is on the grid.
Grid == 1
\* The number of initial states of Math.random()'s generator.
NumSeeds == 4
\* The number of times the Dashboard loads the simulation.
MaxLoads == 2
Unit == 120 * RandSteps * Grid
\* Fixed-point scale of the score components.
SC == 10 * Unit

NoResult == [none |-> TRUE]

\* JavaScript's null where an object may stand (a number that may be null is
\* 0 when null: both are falsy and the code tests them with || only).
JsNull == [null |-> TRUE]

(************************* arithmetic helpers *****************************)
MathMax(a, b) == IF a >= b THEN a ELSE b

MathMin(a, b) == IF a <= b THEN a ELSE b

\* Faulty variant of MathRound: truncation instead of rounding.
MathRoundFloor(x) == x \div SC

\* Math.round on a fixed-point value x (scale SC): the nearest integer, a
\* tie going towards +Infinity, i.e. floor(x + 0.5).  \div is the floor
\* division, so negative values are handled as JavaScript does.
MathRound(x) == (2 * x + SC) \div (2 * SC)

(******************************* BASELINE *********************************)
\* Faulty variant of BASELINE: 8 hours of sleep instead of 7.5.
BaselineSleep8 ==
    [ heartRate     |-> 70 * Unit,
      hrv           |-> 65 * Unit,
      sleepDuration |-> 8 * Unit,
      breathingRate |-> 14 * Unit,
      systolicBP    |-> 120 * Unit,
      diastolicBP   |-> 80 * Unit,
      bloodSugar    |-> 90 * Unit ]

\* Baseline values for a healthy individual, in grid units.
BASELINE ==
    [ heartRate     |-> 70 * Unit,
      hrv           |-> 65 * Unit,
      sleepDuration |-> (15 * Unit) \div 2,
      breathingRate |-> 14 * Unit,
      systolicBP    |-> 120 * Unit,
      diastolicBP   |-> 80 * Unit,
      bloodSugar    |-> 90 * Unit ]

\* A metric value (scale Unit) as a score value (scale SC).
ToSC(v) == 10 * v

(************************** calculateCareScore ****************************)
\* Faulty variant of hrDev: the deviation is not floored at 0.
hrDevSigned(m) == ToSC(m.heartRate - BASELINE.heartRate) \div 10

\* Faulty variant of hrDev: measured against the reference the caller has in
\* mind instead of the module-level BASELINE.
hrDevSupplied(m) == MathMax(0, ToSC(m.heartRate - supplied.heartRate) \div 10)

\* 1. Severity: deviation units, each floored at 0.  ToSC(d) \div 10 is d / 10
\* in scale SC and is exact.
hrDev(m) == MathMax(0, ToSC(m.heartRate - BASELINE.heartRate) \div 10)

\* Faulty variant of hrvDev: one unit per ms instead of per 10 ms.
hrvDevPerMs(m) == MathMax(0, ToSC(BASELINE.hrv - m.hrv))

hrvDev(m) == MathMax(0, ToSC(BASELINE.hrv - m.hrv) \div 10)

\* Faulty variant of sleepDev: the sign of the difference is reversed.
sleepDevReversed(m) ==
    MathMax(0, ToSC(m.sleepDuration - BASELINE.sleepDuration))

sleepDev(m) == MathMax(0, ToSC(BASELINE.sleepDuration - m.sleepDuration))

\* Faulty variant of Severity: the cap of 40 is missing.
SeverityUncapped(m) == (hrDev(m) + hrvDev(m) + sleepDev(m)) * 5

\* severity = (hrDev + hrvDev + sleepDev) * 5, then Math.min(40, severity).
Severity(m) == MathMin(40 * SC, (hrDev(m) + hrvDev(m) + sleepDev(m)) * 5)

\* Faulty variant of Persistence: the factor 0.6 is missing.
PersistenceWhole(severity) == MathMin(25 * SC, severity)

\* Faulty variant of Persistence: factor 0.5 instead of 0.6.
PersistenceHalf(severity) == MathMin(25 * SC, (severity * 5) \div 10)

\* 2. Persistence: severity * 0.6.  severity is a multiple of 5 or the cap
\* 40 * SC, so (severity * 6) \div 10 is exact.
Persistence(severity) == MathMin(25 * SC, (severity * 6) \div 10)

\* Faulty variant of Signals: a value at its threshold counts.
SignalsInclusive(m) ==
      (IF m.heartRate >= BASELINE.heartRate + 5 * Unit THEN 1 ELSE 0)
    + (IF m.hrv <= BASELINE.hrv - 5 * Unit THEN 1 ELSE 0)
    + (IF m.sleepDuration <= BASELINE.sleepDuration - 1 * Unit THEN 1 ELSE 0)
    + (IF m.breathingRate >= BASELINE.breathingRate + 2 * Unit THEN 1 ELSE 0)

\* 3. Cross-signal validation: the number of signals past their thresholds.
Signals(m) ==
      (IF m.heartRate > BASELINE.heartRate + 5 * Unit THEN 1 ELSE 0)
    + (IF m.hrv < BASELINE.hrv - 5 * Unit THEN 1 ELSE 0)
    + (IF m.sleepDuration < BASELINE.sleepDuration - 1 * Unit THEN 1 ELSE 0)
    + (IF m.breathingRate > BASELINE.breathingRate + 2 * Unit THEN 1 ELSE 0)

\* Faulty variant of CrossSignal: 10 per signal.
CrossSignalTen(m) == MathMin(20, Signals(m) * 10)

CrossSignal(m) == MathMin(20, Signals(m) * 5)

\* Faulty variant of Manual: a raised diastolic pressure counts as well.
ManualWithDiastolic(m) ==
    MathMin(15,
          (IF m.systolicBP > 130 * Unit THEN 5 ELSE 0)
        + (IF m.diastolicBP > 90 * Unit THEN 5 ELSE 0)
        + (IF m.bloodSugar > 110 * Unit THEN 5 ELSE 0)
        + (IF Len(m.symptoms) > 0 THEN 5 ELSE 0))

\* Faulty variant of Manual: 5 for every symptom listed.
ManualPerSymptom(m) ==
    MathMin(15,
          (IF m.systolicBP > 130 * Unit THEN 5 ELSE 0)
        + (IF m.bloodSugar > 110 * Unit THEN 5 ELSE 0)
        + 5 * Len(m.symptoms))

\* 4. Manual modifier.
Manual(m) ==
    MathMin(15,
          (IF m.systolicBP > 130 * Unit THEN 5 ELSE 0)
        + (IF m.bloodSugar > 110 * Unit THEN 5 ELSE 0)
        + (IF Len(m.symptoms) > 0 THEN 5 ELSE 0))

\* Math.round(severity + persistence + crossSignal + manual)
TotalScore(severity, persistence, crossSignal, manual) ==
    MathRound(severity + persistence + SC * crossSignal + SC * manual)

\* Faulty variant of Status: the thresholds are inclusive.
StatusInclusive(totalScore) ==
    IF totalScore >= 70 THEN "High"
    ELSE IF totalScore >= 50 THEN "Moderate"
    ELSE IF totalScore >= 30 THEN "Mild"
    ELSE "Stable"

\* status starts "Stable"; each later test that holds overwrites it.
Status(totalScore) ==
    IF totalScore > 70 THEN "High"
    ELSE IF totalScore > 50 THEN "Moderate"
    ELSE IF totalScore > 30 THEN "Mild"
    ELSE "Stable"

\* Faulty variant of DriftDetected: the threshold is inclusive.
DriftDetectedInclusive(totalScore) == totalScore >= 30

DriftDetected(totalScore) == totalScore > 30

\* 85 + Math.random() * 10, scaled by RandSteps.
Confidence(rnd) == 85 * RandSteps + rnd * 10

\* Faulty variant of Stability: 99 instead of 100, no floor at 0.
StabilityOffByOne(totalScore) == 99 - totalScore

Stability(totalScore) == MathMax(0, 100 - totalScore)

\* Faulty variant of calculateCareScore: the random draw leaks into the
\* total score.
calculateCareScoreNoisy(m, rnd) ==
    LET severity    == Severity(m)
        persistence == Persistence(severity)
        crossSignal == CrossSignal(m)
        manual      == Manual(m)
        totalScore  == TotalScore(severity, persistence, crossSignal, manual)
                         + rnd
    IN  [ currentScore   |-> totalScore,
          breakdown      |-> [ severity       |-> severity,
                               persistence    |-> persistence,
                               crossSignal    |-> crossSignal,
                               manualModifier |-> manual,
                               total          |-> totalScore ],
          status         |-> Status(totalScore),
          driftDetected  |-> DriftDetected(totalScore),
          confidence     |-> Confidence(rnd),
          stability      |-> Stability(totalScore),
          trends         |-> << >> ]

calculateCareScore(m, rnd) ==
    LET severity    == Severity(m)
        persistence == Persistence(severity)
        crossSignal == CrossSignal(m)
        manual      == Manual(m)
        totalScore  == TotalScore(severity, persistence, crossSignal, manual)
    IN  [ currentScore   |-> totalScore,
          breakdown      |-> [ severity       |-> severity,
                               persistence    |-> persistence,
                               crossSignal    |-> crossSignal,
                               manualModifier |-> manual,
                               total          |-> totalScore ],
          status         |-> Status(totalScore),
          driftDetected  |-> DriftDetected(totalScore),
          confidence     |-> Confidence(rnd),
          stability      |-> Stability(totalScore),
          trends         |-> << >> ]

(************************* generateSimulationData *************************)
\* const days = 60
Days == 60

\* Math.random() is a pseudo-random generator: a hidden state, a value in
\* [0, 1) computed from it, and the next state.  The value is
\* RandomValue(s) / RandSteps.
RandomNext(s) == (5 * s + 3) % 16

RandomValue(s) == (s * RandSteps) \div 16

RECURSIVE RandomAfter(_, _)
\* The state after n calls of Math.random().
RandomAfter(s, n) == IF n = 0 THEN s ELSE RandomAfter(RandomNext(s), n - 1)

Seeds == 0 .. NumSeeds - 1

\* Faulty variant of driftFactor: the ramp starts one sample late.
driftFactorLate(idx) == IF idx > 31 THEN ((idx - 31) * Unit) \div 30 ELSE 0

\* Faulty variant of driftFactor: a ramp that reaches 1 at the last sample.
driftFactorToOne(idx) == IF idx >= 30 THEN ((idx - 29) * Unit) \div 30 ELSE 0

\* const driftFactor = i > 30 ? (i - 30) / 30 : 0, in grid units.
driftFactor(idx) == IF idx > 30 THEN ((idx - 30) * Unit) \div 30 ELSE 0

\* Faulty variant of noise: not centred at zero.
noiseUncentred(scale, r) == (r * scale * Unit) \div RandSteps

\* const noise = (scale) => (Math.random() - 0.5) * scale, in grid units,
\* Math.random() having returned r / RandSteps.
noise(scale, r) == ((2 * r - RandSteps) * scale * Unit) \div (2 * RandSteps)

\* Faulty variant of symptomsAt: no symptoms are ever reported.
symptomsNever(idx) == << >>

\* Faulty variant of symptomsAt: symptoms from index 45 on.
symptomsFrom45(idx) ==
    IF idx >= 45 THEN <<"Fatigue", "Mild Dizziness">> ELSE << >>

\* symptoms: i > 45 ? ["Fatigue", "Mild Dizziness"] : []
symptomsAt(idx) == IF idx > 45 THEN <<"Fatigue", "Mild Dizziness">> ELSE << >>

\* subDays(now, days - 1 - i) formatted "yyyy-MM-dd": a calendar day.
dateAt(now, idx) == now - (Days - 1 - idx)

\* The object pushed in iteration idx, the clock reading `now` and the
\* eight calls of Math.random() returning r[0] .. r[7] (one per noise(), in
\* the order of the properties of the object literal).
sampleWith(idx, now, r) ==
    LET df == driftFactor(idx)
    IN  [ date          |-> dateAt(now, idx),
          heartRate     |-> BASELINE.heartRate + df * 15 + noise(5, r[0]),
          hrv           |-> BASELINE.hrv - df * 20 + noise(10, r[1]),
          sleepDuration |-> MathMax(4 * Unit,
                                BASELINE.sleepDuration - df * 2
                                  + noise(1, r[2])),
          activityLevel |-> 8000 * Unit - df * 3000 + noise(2000, r[3]),
          breathingRate |-> BASELINE.breathingRate + df * 4 + noise(2, r[4]),
          systolicBP    |-> BASELINE.systolicBP + df * 10 + noise(5, r[5]),
          diastolicBP   |-> BASELINE.diastolicBP + df * 5 + noise(5, r[6]),
          bloodSugar    |-> BASELINE.bloodSugar + df * 15 + noise(10, r[7]),
          symptoms      |-> symptomsAt(idx) ]

\* The same object, Math.random()'s generator being in state s.
generatedSample(idx, now, s) ==
    sampleWith(idx, now, [k \in 0 .. 7 |-> RandomValue(RandomAfter(s, k))])

(****************************** samples ***********************************)
\* Values of each HealthMetric field that a call is made with, in grid
\* units: baseline values, values exactly at and just past each threshold,
\* values on the healthy side, out-of-domain (negative) values and values
\* that saturate the caps.
HeartRates == { -10 * Unit, 70 * Unit, 70 * Unit + (5 * Unit) \div 8, 75 * Unit, 76 * Unit,
                100 * Unit }

Hrvs == { 45 * Unit, 60 * Unit, 65 * Unit, 80 * Unit }

SleepDurations == { -2 * Unit, (11 * Unit) \div 2, (13 * Unit) \div 2,
                    (15 * Unit) \div 2, 9 * Unit }

BreathingRates == { 14 * Unit, 16 * Unit, 18 * Unit }

SystolicBPs == { 120 * Unit, 130 * Unit, 135 * Unit }

BloodSugars == { 90 * Unit, 110 * Unit, 120 * Unit }

SymptomLists == { << >>, <<"Fatigue">>, <<"Fatigue", "Mild Dizziness">> }

\* A date "yyyy-MM-dd" is represented by the number of its calendar day
\* (days since 1970-01-01): format is one-to-one and keeps the order of days.
FirstDay == 20089

Samples ==
    [ date          : {FirstDay},
      heartRate     : HeartRates,
      hrv           : Hrvs,
      sleepDuration : SleepDurations,
      activityLevel : {8000 * Unit},
      breathingRate : BreathingRates,
      systolicBP    : SystolicBPs,
      diastolicBP   : {80 * Unit},
      bloodSugar    : BloodSugars,
      symptoms      : SymptomLists ]

\* Samples of the calls made between two calls on the sample under study.
OtherSamples ==
    { s \in Samples :
        /\ s.heartRate \in {70 * Unit, 100 * Unit}
        /\ s.hrv = 65 * Unit
        /\ s.sleepDuration \in {(11 * Unit) \div 2, (15 * Unit) \div 2}
        /\ s.breathingRate = 18 * Unit
        /\ s.systolicBP = 135 * Unit
        /\ s.bloodSugar = 90 * Unit
        /\ s.symptoms = << >> }

RandomDraws == 0 .. RandSteps - 1

(******************************* objects **********************************)
\* Objects live in `heap`, a sequence indexed by address; `by` records the
\* load that created the object.  Null is the address of no object.
Null == 0

\* The array `data` returned by generateSimulationData.
SeriesObject(items, n) == [kind |-> "series", items |-> items, by |-> n]

\* The array literal [] of the property trends.
ArrayObject(n) == [kind |-> "array", items |-> << >>, by |-> n]

\* The object literal returned by calculateCareScore, its trends property
\* referring to the array at trendsAddr.
ResultObject(r, trendsAddr, n) ==
    [kind |-> "result", value |-> [r EXCEPT !.trends = trendsAddr], by |-> n]

\* The module-level constant object BASELINE.
BaselineObject == [kind |-> "baseline", value |-> BASELINE, by |-> 0]

\* The address of a new array: one no object has yet.
NewAddress(h) == Len(h) + 1

\* Faulty variant of ResultAddress: the result object of an earlier call is
\* handed out again.
CachedAddress(h) ==
    IF \E a \in 1 .. Len(h) : h[a].kind = "result"
    THEN CHOOSE a \in 1 .. Len(h) : h[a].kind = "result"
    ELSE Len(h) + 1

\* The address of the object literal calculateCareScore returns: one no
\* object has yet.
ResultAddress(h) == Len(h) + 1

\* The heap with obj at address a.
Store(h, a, obj) ==
    IF a = Len(h) + 1 THEN Append(h, obj) ELSE [h EXCEPT ![a] = obj]

(********************* Dashboard.loadSimulationData ***********************)
\* simData.map(d => ({date, heartRate, hrv, sleepDuration, activityLevel}))
DisplayData(items) ==
    [k \in 1 .. Len(items) |->
        [ date          |-> items[k].date,
          heartRate     |-> items[k].heartRate,
          hrv           |-> items[k].hrv,
          sleepDuration |-> items[k].sleepDuration,
          activityLevel |-> items[k].activityLevel ]]

\* Faulty variant of latestOf: the oldest sample.
oldestOf(items) == items[1]

\* const latest = simData[simData.length - 1]
latestOf(items) == items[Len(items)]

\* No load is under way and none has been made.
SimIdle ==
    /\ pc = "idle"
    /\ i = 0
    /\ data = << >>
    /\ drifts = << >>
    /\ clock = FirstDay
    /\ ticked = FALSE
    /\ heap = << BaselineObject >>
    /\ simData = Null
    /\ scored = Null
    /\ chart = << >>
    /\ analysis = Null
    /\ isUsingRealData = FALSE
    /\ loads = 0

\* No second sample is scored.
PairIdle ==
    /\ second = NoResult
    /\ resultSecond = NoResult

\* The Dashboard is not mounted.
DashIdle ==
    /\ run = "none"
    /\ userId = 0
    /\ summaryData = JsNull
    /\ trendsData = JsNull
    /\ isLoading = TRUE
    /\ summary = JsNull
    /\ loadsAtCall = 0

\* An empty localStorage: getItem returns null for every key.
NoStorage ==
    [ pulse_api_key |-> JsNull, pulse_user_id |-> JsNull, pulse_user |-> JsNull ]

\* A new browser profile, no page of the application being open.
AuthIdle ==
    /\ storage = NoStorage
    /\ authPc = "idle"
    /\ lastOp = [op |-> "none"]
    /\ settingsPc = "unmounted"
    /\ settingsUser = JsNull
    /\ pending = JsNull
    /\ ctxUser = JsNull
    /\ authLoading = TRUE
    /\ initPc = "none"
    /\ storedUser = JsNull
    /\ isValid = "unset"

ExtIdle == PairIdle /\ DashIdle /\ AuthIdle

InitSim ==
    /\ SimIdle
    /\ rng \in Seeds
    /\ ExtIdle
    /\ metric = NoResult
    /\ result = NoResult
    /\ earlier = NoResult
    /\ between = NoResult
    /\ supplied = BASELINE

\* loadSimulationData is entered: setIsUsingRealData(false), and
\* generateSimulationData starts with data = [] and i = 0.
StartLoad ==
    /\ pc = "idle"
    /\ loads < MaxLoads
    /\ isUsingRealData' = FALSE
    /\ pc' = "gen"
    /\ i' = 0
    /\ data' = << >>
    /\ drifts' = << >>
    /\ UNCHANGED <<clock, ticked, rng, heap, simData, scored, chart,
                   analysis, loads>>
    /\ UNCHANGED <<scoreVars, supplied, extVars>>

\* One iteration of the loop: new Date() is read, eight noise values are
\* drawn and the sample is pushed.
GenStep ==
    /\ pc = "gen"
    /\ i < Days
    /\ data' = Append(data, generatedSample(i, clock, rng))
    /\ drifts' = Append(drifts, driftFactor(i))
    /\ rng' = RandomAfter(rng, 8)
    /\ i' = i + 1
    /\ UNCHANGED <<pc, clock, ticked, heap, simData, scored, chart, analysis,
                   isUsingRealData, loads>>
    /\ UNCHANGED <<scoreVars, supplied, extVars>>

\* Midnight passes while the loop runs (at most once in a run).
Tick ==
    /\ pc = "gen"
    /\ ~ ticked
    /\ clock' = clock + 1
    /\ ticked' = TRUE
    /\ UNCHANGED <<pc, i, data, drifts, rng, heap, simData, scored, chart,
                   analysis, isUsingRealData, loads>>
    /\ UNCHANGED <<scoreVars, supplied, extVars>>

\* The loop is over: data is returned as simData, and setData is called with
\* its projection.
GenReturn ==
    /\ pc = "gen"
    /\ i = Days
    /\ LET a == NewAddress(heap)
       IN  /\ heap' = Store(heap, a, SeriesObject(data, loads + 1))
           /\ simData' = a
    /\ chart' = DisplayData(data)
    /\ pc' = "score"
    /\ UNCHANGED <<i, data, drifts, clock, ticked, rng, scored, analysis,
                   isUsingRealData, loads>>
    /\ UNCHANGED <<scoreVars, supplied, extVars>>

\* const result = calculateCareScore(latest)
Score ==
    /\ pc = "score"
    /\ LET latest == latestOf(heap[simData].items)
           r      == calculateCareScore(latest, RandomValue(rng))
           ta     == NewAddress(heap)
           h1     == Store(heap, ta, ArrayObject(loads + 1))
           ra     == ResultAddress(h1)
       IN  /\ heap' = Store(h1, ra, ResultObject(r, ta, loads + 1))
           /\ scored' = ra
    /\ rng' = RandomNext(rng)
    /\ pc' = "attach"
    /\ UNCHANGED <<i, data, drifts, clock, ticked, simData, chart, analysis,
                   isUsingRealData, loads>>
    /\ UNCHANGED <<scoreVars, supplied, extVars>>

\* result.trends = simData; setAnalysis(result)
Attach ==
    /\ pc = "attach"
    /\ heap' = [heap EXCEPT ![scored].value.trends = simData]
    /\ analysis' = scored
    /\ loads' = loads + 1
    /\ pc' = "idle"
    /\ UNCHANGED <<i, data, drifts, clock, ticked, rng, simData, scored,
                   chart, isUsingRealData>>
    /\ UNCHANGED <<scoreVars, supplied, extVars>>

NextSim ==
    \/ StartLoad
    \/ GenStep
    \/ Tick
    \/ GenReturn
    \/ Score
    \/ Attach

SpecSim == InitSim /\ [][NextSim]_vars

(********************* Dashboard.loadDashboardData ************************)
\* Faulty variant of OrElse: the default is never used.
OrElseKeep(a, b) == a

\* a || b for a number a that may be null.
OrElse(a, b) == IF a = 0 THEN b ELSE a

\* authService.getUserId() as the component read it: none (or 0) and an id.
UserIds == {0, 7}

\* care_score objects of a summary response, in the units of the model's
\* AnalysisResult (severity and persistence in 1/SC, confidence in
\* 1/RandSteps): one with every field set, one whose score, drift_score,
\* confidence and stability are null or 0, and one without components.
CareScores ==
    { [ score       |-> 42,
        status      |-> "Mild",
        components  |-> [ severity         |-> 20 * SC,
                          persistence      |-> 12 * SC,
                          cross_signal     |-> 5,
                          manual_modifier  |-> 5 ],
        drift_score |-> 35,
        confidence  |-> 90 * RandSteps,
        stability   |-> 58 ],
      [ score       |-> 0,
        status      |-> "Stable",
        components  |-> [ severity         |-> 0,
                          persistence      |-> 0,
                          cross_signal     |-> 0,
                          manual_modifier  |-> 0 ],
        drift_score |-> 0,
        confidence  |-> 0,
        stability   |-> 0 ],
      [ score       |-> 42,
        status      |-> "Mild",
        components  |-> JsNull,
        drift_score |-> 35,
        confidence  |-> 90 * RandSteps,
        stability   |-> 58 ] }

\* What dashboardService.getSummary(userId).catch(() => null) resolves to:
\* null when the request failed, or the response body.
SummaryOutcomes ==
    {JsNull, [care_score |-> JsNull]} \cup {[care_score |-> c] : c \in CareScores}

\* What dashboardService.getTrends(userId, 60).catch(() => null) resolves
\* to: null, a body without a trends list, an empty list, or two days of
\* which one has null measurements.
TrendsOutcomes ==
    { JsNull,
      [trends |-> JsNull],
      [trends |-> << >>],
      [trends |-> << [ date           |-> FirstDay - 1,
                       heart_rate     |-> 72 * Unit,
                       hrv            |-> 60 * Unit,
                       sleep_duration |-> 7 * Unit,
                       activity_level |-> 5000 * Unit ],
                     [ date           |-> FirstDay,
                       heart_rate     |-> 0,
                       hrv            |-> 0,
                       sleep_duration |-> 0,
                       activity_level |-> 0 ] >>] }

\* trendsData.trends.map(t => ({date, heartRate: t.heart_rate || 70, ...}))
TrendsDisplay(trends) ==
    [k \in 1 .. Len(trends) |->
        [ date          |-> trends[k].date,
          heartRate     |-> OrElse(trends[k].heart_rate, 70 * Unit),
          hrv           |-> OrElse(trends[k].hrv, 65 * Unit),
          sleepDuration |-> OrElse(trends[k].sleep_duration, (15 * Unit) \div 2),
          activityLevel |-> OrElse(trends[k].activity_level, 8000 * Unit) ]]

\* Faulty variant of FromCareScore: the simulation's score stands in for
\* the backend's.
FromCareScoreSimulated(careScore) ==
    calculateCareScore(
        [ date          |-> FirstDay,
          heartRate     |-> BASELINE.heartRate,
          hrv           |-> BASELINE.hrv,
          sleepDuration |-> BASELINE.sleepDuration,
          activityLevel |-> 8000 * Unit,
          breathingRate |-> BASELINE.breathingRate,
          systolicBP    |-> BASELINE.systolicBP,
          diastolicBP   |-> BASELINE.diastolicBP,
          bloodSugar    |-> BASELINE.bloodSugar,
          symptoms      |-> << >> ], 0)

\* The object literal passed to setAnalysis in the backend branch.
FromCareScore(careScore) ==
    [ currentScore   |-> OrElse(careScore.score, 0),
      breakdown      |-> [ severity       |-> careScore.components.severity,
                           persistence    |-> careScore.components.persistence,
                           crossSignal    |-> careScore.components.cross_signal,
                           manualModifier |-> careScore.components.manual_modifier,
                           total          |-> OrElse(careScore.score, 0) ],
      status         |-> careScore.status,
      driftDetected  |-> OrElse(careScore.drift_score, 0) > 30,
      confidence     |-> OrElse(careScore.confidence, 85 * RandSteps),
      stability      |-> OrElse(careScore.stability,
                                100 - OrElse(careScore.score, 0)),
      trends         |-> << >> ]

\* The Dashboard has mounted and its effect is about to run.
InitDash ==
    /\ SimIdle
    /\ rng = 0
    /\ metric = NoResult
    /\ result = NoResult
    /\ earlier = NoResult
    /\ between = NoResult
    /\ supplied = BASELINE
    /\ PairIdle
    /\ AuthIdle
    /\ run = "mounted"
    /\ userId \in UserIds
    /\ summaryData = JsNull
    /\ trendsData = JsNull
    /\ isLoading = TRUE
    /\ summary = JsNull
    /\ loadsAtCall = 0

\* setIsLoading(true); setError(null); if (userId) the two requests are
\* sent, else loadSimulationData() is called.
DashStart ==
    /\ run = "mounted"
    /\ isLoading' = TRUE
    /\ IF userId # 0
       THEN run' = "await" /\ UNCHANGED loadsAtCall
       ELSE run' = "sim" /\ loadsAtCall' = loads
    /\ UNCHANGED <<userId, summaryData, trendsData, summary>>
    /\ UNCHANGED <<scoreVars, simVars, supplied, pairVars, authVars>>

\* await Promise.all([...]): both requests have settled.
DashRespond(s, t) ==
    /\ run = "await"
    /\ summaryData' = s
    /\ trendsData' = t
    /\ run' = "branch"
    /\ UNCHANGED <<userId, isLoading, summary, loadsAtCall>>
    /\ UNCHANGED <<scoreVars, simVars, supplied, pairVars, authVars>>

\* if (summaryData && summaryData.care_score): setSummary,
\* setIsUsingRealData(true) and the chart data; a trends body without a
\* list throws at trendsData.trends.length, and the catch block calls
\* loadSimulationData(); so does the else branch.
DashBranch ==
    /\ run = "branch"
    /\ IF summaryData # JsNull /\ summaryData.care_score # JsNull
       THEN /\ summary' = summaryData
            /\ isUsingRealData' = TRUE
            /\ IF trendsData # JsNull /\ trendsData.trends = JsNull
               THEN /\ run' = "sim"
                    /\ loadsAtCall' = loads
                    /\ UNCHANGED <<pc, i, data, drifts, chart>>
               ELSE IF trendsData # JsNull /\ Len(trendsData.trends) > 0
               THEN /\ chart' = TrendsDisplay(trendsData.trends)
                    /\ run' = "convert"
                    /\ UNCHANGED <<pc, i, data, drifts, loadsAtCall>>
               ELSE /\ run' = "chartgen"
                    /\ pc' = "gen"
                    /\ i' = 0
                    /\ data' = << >>
                    /\ drifts' = << >>
                    /\ UNCHANGED <<chart, loadsAtCall>>
       ELSE /\ run' = "sim"
            /\ loadsAtCall' = loads
            /\ UNCHANGED <<summary, isUsingRealData, pc, i, data, drifts, chart>>
    /\ UNCHANGED <<clock, ticked, rng, heap, simData, scored, analysis, loads>>
    /\ UNCHANGED <<userId, summaryData, trendsData, isLoading>>
    /\ UNCHANGED <<scoreVars, supplied, pairVars, authVars>>

\* generateSimulationData() has returned in the backend branch:
\* setData(generateSimulationData().map(...)).
ChartReturn ==
    /\ run = "chartgen"
    /\ pc = "gen"
    /\ i = Days
    /\ heap' = Store(heap, NewAddress(heap), SeriesObject(data, loads + 1))
    /\ chart' = DisplayData(data)
    /\ pc' = "idle"
    /\ run' = "convert"
    /\ UNCHANGED <<i, data, drifts, clock, ticked, rng, simData, scored,
                   analysis, isUsingRealData, loads>>
    /\ UNCHANGED <<userId, summaryData, trendsData, isLoading, summary,
                   loadsAtCall>>
    /\ UNCHANGED <<scoreVars, supplied, pairVars, authVars>>

\* setAnalysis({...}) from summaryData.care_score; a care_score without
\* components throws, and the catch block calls loadSimulationData().
DashConvert ==
    /\ run = "convert"
    /\ IF summaryData.care_score.components = JsNull
       THEN /\ run' = "sim"
            /\ loadsAtCall' = loads
            /\ UNCHANGED <<heap, analysis>>
       ELSE /\ LET ta == NewAddress(heap)
                   h1 == Store(heap, ta, ArrayObject(loads + 1))
                   ra == NewAddress(h1)
               IN  /\ heap' = Store(h1, ra,
                                    ResultObject(
                                        FromCareScore(summaryData.care_score),
                                        ta, loads + 1))
                   /\ analysis' = ra
            /\ run' = "finally"
            /\ UNCHANGED loadsAtCall
    /\ UNCHANGED <<pc, i, data, drifts, clock, ticked, rng, simData, scored,
                   chart, isUsingRealData, loads>>
    /\ UNCHANGED <<userId, summaryData, trendsData, isLoading, summary>>
    /\ UNCHANGED <<scoreVars, supplied, pairVars, authVars>>

\* loadSimulationData() has returned.
DashSimReturned ==
    /\ run = "sim"
    /\ pc = "idle"
    /\ loads = loadsAtCall + 1
    /\ run' = "finally"
    /\ UNCHANGED <<userId, summaryData, trendsData, isLoading, summary,
                   loadsAtCall>>
    /\ UNCHANGED <<scoreVars, simVars, supplied, pairVars, authVars>>

\* finally { setIsLoading(false) }
DashFinally ==
    /\ run = "finally"
    /\ isLoading' = FALSE
    /\ run' = "done"
    /\ UNCHANGED <<userId, summaryData, trendsData, summary, loadsAtCall>>
    /\ UNCHANGED <<scoreVars, simVars, supplied, pairVars, authVars>>

NextDash ==
    \/ DashStart
    \/ \E s \in SummaryOutcomes, t \in TrendsOutcomes : DashRespond(s, t)
    \/ DashBranch
    \/ run \in {"sim", "chartgen"} /\ GenStep
    \/ run \in {"sim", "chartgen"} /\ Tick
    \/ ChartReturn
    \/ DashConvert
    \/ run = "sim" /\ loads = loadsAtCall /\ StartLoad
    \/ run = "sim" /\ GenReturn
    \/ run = "sim" /\ Score
    \/ run = "sim" /\ Attach
    \/ DashSimReturned
    \/ DashFinally

SpecDash == InitDash /\ [][NextDash]_vars

\* The requests settle (they time out after 30 s) and every synchronous
\* step of the handler is taken.
SpecDashFair == SpecDash /\ WF_vars(NextDash)

(****************************** authService ******************************)
\* The text of a stored item is kept in a record [text |-> ...]; getItem
\* returns JsNull for a key that is not set.
Item(text) == [text |-> text]

RECURSIVE NumberToString(_)
\* user.id.toString(): the decimal digits of a non-negative integer.
NumberToString(n) ==
    IF n < 10 THEN << n >> ELSE Append(NumberToString(n \div 10), n % 10)

RECURSIVE ParseInt(_)
\* parseInt(id, 10) of a string of decimal digits.
ParseInt(digits) ==
    IF Len(digits) = 1 THEN digits[1]
    ELSE 10 * ParseInt(SubSeq(digits, 1, Len(digits) - 1)) + digits[Len(digits)]

\* The properties of a User in the order they are written.
KeyOrder == << "id", "email", "name", "age", "gender" >>

NumberKeys == {"id", "age"}

\* JSON.stringify(u): the properties u has, each with the text of its
\* value (a number's digits or a string).  They are listed in KeyOrder;
\* JSON.parse does not depend on their order.
Stringify(u) ==
    LET ks == SelectSeq(KeyOrder, LAMBDA k : k \in DOMAIN u)
    IN  [j \in 1 .. Len(ks) |->
            [ key |-> ks[j],
              val |-> IF ks[j] \in NumberKeys
                      THEN [num |-> NumberToString(u[ks[j]])]
                      ELSE [str |-> u[ks[j]]] ]]

\* JSON.parse(t): the object with the properties the text lists.
Parse(t) ==
    [k \in {t[j].key : j \in 1 .. Len(t)} |->
        LET e == t[CHOOSE j \in 1 .. Len(t) : t[j].key = k]
        IN  IF "num" \in DOMAIN e.val THEN ParseInt(e.val.num) ELSE e.val.str]

\* Users and API keys the backend's /auth/onboard may return.
Users ==
    { [id |-> 0,   email |-> "ann@x.io", name |-> "ann"],
      [id |-> 7,   email |-> "bob@x.io", name |-> "bob", age |-> 40],
      [id |-> 120, email |-> "cy@x.io",  name |-> "cy", gender |-> "f"] }

ApiKeys == {"pk_1", "pk_2"}

\* The failures of a request: no response, a server error, 401.
FailureStatuses == {0, 500, 401}

\* What the profile form of Settings may hold when it is saved.
Forms == { [name |-> "", email |-> ""], [name |-> "zoe", email |-> "zoe@x.io"] }

\* The three setItem calls of login and signup.
StoreSession(user, apiKey) ==
    [ pulse_api_key |-> Item(apiKey),
      pulse_user_id |-> Item(NumberToString(user.id)),
      pulse_user    |-> Item(Stringify(user)) ]

\* getCurrentUser(): userStr ? JSON.parse(userStr) : null
getCurrentUser(st) ==
    IF st.pulse_user = JsNull THEN JsNull ELSE Parse(st.pulse_user.text)

\* getUserId(): id ? parseInt(id, 10) : null; a number n is [num |-> n].
getUserId(st) ==
    IF st.pulse_user_id = JsNull THEN JsNull
    ELSE [num |-> ParseInt(st.pulse_user_id.text)]

\* isAuthenticated(): !!localStorage.getItem('pulse_api_key')
isAuthenticated(st) == st.pulse_api_key # JsNull

\* { ...user, name, email } of Settings.handleSave; a null user spreads to
\* no property.
UpdatedUser(user, form) ==
    LET ks == (IF user = JsNull THEN {} ELSE DOMAIN user) \cup {"name", "email"}
    IN  [k \in ks |-> IF k = "name" THEN form.name
                      ELSE IF k = "email" THEN form.email
                      ELSE user[k]]

\* The page is loaded anew (window.location.href = ...): every component
\* state and every pending continuation of the old page is gone.
PageReloaded ==
    /\ authPc' = "idle"
    /\ settingsPc' = "unmounted"
    /\ settingsUser' = JsNull
    /\ pending' = JsNull

\* No page is open yet and localStorage is empty.
InitAuth ==
    /\ AuthIdle
    /\ SimIdle
    /\ rng = 0
    /\ metric = NoResult
    /\ result = NoResult
    /\ earlier = NoResult
    /\ between = NoResult
    /\ supplied = BASELINE
    /\ PairIdle
    /\ DashIdle

ctxVars == <<ctxUser, authLoading, initPc, storedUser, isValid>>

otherVars == <<scoreVars, simVars, supplied, pairVars, dashVars>>

\* authService.login or authService.signup is called: api.post is sent.
AuthSend(op) ==
    /\ authPc = "idle"
    /\ authPc' = op
    /\ UNCHANGED <<storage, lastOp, settingsPc, settingsUser, pending>>
    /\ UNCHANGED <<ctxVars, otherVars>>

\* The request succeeded with { user, api_key }: the three items are set
\* and { user, apiKey } is returned.
AuthRespondOk(user, apiKey) ==
    /\ authPc \in {"login", "signup"}
    /\ storage' = StoreSession(user, apiKey)
    /\ lastOp' = [op |-> authPc, ok |-> TRUE, user |-> user, apiKey |-> apiKey]
    /\ authPc' = "idle"
    /\ UNCHANGED <<settingsPc, settingsUser, pending>>
    /\ UNCHANGED <<ctxVars, otherVars>>

\* The request failed: the response interceptor runs first (on 401 it
\* removes the three items and sends the browser to /login), then the call
\* rejects.
AuthRespondFail(status) ==
    /\ authPc \in {"login", "signup"}
    /\ lastOp' = [op |-> authPc, ok |-> FALSE, status |-> status,
                  before |-> storage]
    /\ IF status = 401
       THEN storage' = NoStorage /\ PageReloaded
       ELSE /\ authPc' = "idle"
            /\ UNCHANGED <<storage, settingsPc, settingsUser, pending>>
    /\ UNCHANGED <<ctxVars, otherVars>>

\* Faulty variant of Logout: pulse_user is left in place.
LogoutKeepsUser ==
    /\ storage' = [storage EXCEPT !.pulse_api_key = JsNull,
                                  !.pulse_user_id = JsNull]
    /\ lastOp' = [op |-> "logout"]
    /\ PageReloaded
    /\ UNCHANGED <<ctxVars, otherVars>>

\* authService.logout(), called by handleLogout of the layout and of
\* Settings, which then set window.location.href.
Logout ==
    /\ storage' = NoStorage
    /\ lastOp' = [op |-> "logout"]
    /\ PageReloaded
    /\ UNCHANGED <<ctxVars, otherVars>>

\* Another request of the page is answered 401: the response interceptor.
Unauthorized ==
    /\ storage' = NoStorage
    /\ lastOp' = [op |-> "unauthorized"]
    /\ PageReloaded
    /\ UNCHANGED <<ctxVars, otherVars>>

\* Settings is mounted (the route is not guarded): loadUserData().
SettingsMount ==
    /\ settingsPc = "unmounted"
    /\ settingsPc' = "mounted"
    /\ settingsUser' = getCurrentUser(storage)
    /\ UNCHANGED <<storage, authPc, lastOp, pending>>
    /\ UNCHANGED <<ctxVars, otherVars>>

\* handleSave is called with the form's name and email: it waits one second;
\* user, name and email are those of the render that made the handler.
SaveStart(form) ==
    /\ settingsPc = "mounted"
    /\ settingsPc' = "saving"
    /\ pending' = UpdatedUser(settingsUser, form)
    /\ UNCHANGED <<storage, authPc, lastOp, settingsUser>>
    /\ UNCHANGED <<ctxVars, otherVars>>

\* The second is over: setItem('pulse_user', ...) and setUser(updatedUser).
SaveFinish ==
    /\ settingsPc = "saving"
    /\ storage' = [storage EXCEPT !.pulse_user = Item(Stringify(pending))]
    /\ settingsUser' = pending
    /\ lastOp' = [op |-> "save"]
    /\ settingsPc' = "mounted"
    /\ pending' = JsNull
    /\ UNCHANGED authPc
    /\ UNCHANGED <<ctxVars, otherVars>>

NextAuth ==
    \/ \E op \in {"login", "signup"} : AuthSend(op)
    \/ \E user \in Users, apiKey \in ApiKeys : AuthRespondOk(user, apiKey)
    \/ \E status \in FailureStatuses : AuthRespondFail(status)
    \/ Logout
    \/ Unauthorized
    \/ SettingsMount
    \/ \E form \in Forms : SaveStart(form)
    \/ SaveFinish

SpecAuth == InitAuth /\ [][NextAuth]_vars

(****************************** AuthProvider ******************************)
\* What localStorage may hold when the application is opened: nothing, a
\* session stored by login or signup, such a session with the profile saved
\* over by the Settings page, a pulse_user written by the Settings page
\* alone, or the pulse_user_id and pulse_api_key written by the OAuth
\* callback of the Drive page alone.
InitStorages ==
         {NoStorage}
    \cup {StoreSession(user, apiKey) : user \in Users, apiKey \in ApiKeys}
    \cup {[StoreSession(user, apiKey) EXCEPT
              !.pulse_user = Item(Stringify(UpdatedUser(user, form)))] :
            user \in Users, apiKey \in ApiKeys, form \in Forms}
    \cup {[NoStorage EXCEPT
              !.pulse_user = Item(Stringify(UpdatedUser(JsNull, form)))] :
            form \in Forms}
    \cup {[StoreSession(user, apiKey) EXCEPT !.pulse_user = JsNull] :
            user \in Users, apiKey \in ApiKeys}

\* What GET /auth/validate may end with: response.data.valid, or a failure.
ValidateOutcomes ==
    {[valid |-> TRUE], [valid |-> FALSE]}
        \cup {[failed |-> status] : status \in FailureStatuses}

\* AuthProvider has mounted and its effect is about to call initAuth.
InitMount ==
    /\ storage \in InitStorages
    /\ authPc = "idle"
    /\ lastOp = [op |-> "none"]
    /\ settingsPc = "unmounted"
    /\ settingsUser = JsNull
    /\ pending = JsNull
    /\ ctxUser = JsNull
    /\ authLoading = TRUE
    /\ initPc = "start"
    /\ storedUser = JsNull
    /\ isValid = "unset"
    /\ SimIdle
    /\ rng = 0
    /\ metric = NoResult
    /\ result = NoResult
    /\ earlier = NoResult
    /\ between = NoResult
    /\ supplied = BASELINE
    /\ PairIdle
    /\ DashIdle

pageVars == <<authPc, settingsPc, settingsUser, pending>>

\* const storedUser = authService.getCurrentUser(); without one initAuth goes
\* to setIsLoading(false); validateSession returns false without a request
\* when there is no pulse_api_key.
InitRead ==
    /\ initPc = "start"
    /\ storedUser' = getCurrentUser(storage)
    /\ IF storedUser' = JsNull
       THEN initPc' = "finish" /\ UNCHANGED isValid
       ELSE IF ~ isAuthenticated(storage)
       THEN initPc' = "validated" /\ isValid' = "false"
       ELSE initPc' = "validate" /\ UNCHANGED isValid
    /\ UNCHANGED <<storage, ctxUser, authLoading, lastOp>>
    /\ UNCHANGED <<pageVars, otherVars>>

\* The validation request has ended: response.data.valid is returned, or
\* false from the catch block; a 401 has gone through the response
\* interceptor first, which removes the three items and starts the
\* navigation to /login.
ValidateRespond(outcome) ==
    /\ initPc = "validate"
    /\ isValid' = IF "valid" \in DOMAIN outcome /\ outcome.valid
                  THEN "true" ELSE "false"
    /\ IF "failed" \in DOMAIN outcome /\ outcome.failed = 401
       THEN storage' = NoStorage /\ lastOp' = [op |-> "unauthorized"]
       ELSE UNCHANGED <<storage, lastOp>>
    /\ initPc' = "validated"
    /\ UNCHANGED <<ctxUser, authLoading, storedUser>>
    /\ UNCHANGED <<pageVars, otherVars>>

\* Faulty variant of InitApply: an invalid session is left in storage.
InitApplyKeepsSession ==
    /\ initPc = "validated"
    /\ IF isValid = "true"
       THEN ctxUser' = storedUser
       ELSE UNCHANGED ctxUser
    /\ initPc' = "finish"
    /\ UNCHANGED <<storage, authLoading, storedUser, isValid, lastOp>>
    /\ UNCHANGED <<pageVars, otherVars>>

\* if (isValid) setUser(storedUser) else authService.logout()
InitApply ==
    /\ initPc = "validated"
    /\ IF isValid = "true"
       THEN ctxUser' = storedUser /\ UNCHANGED storage
       ELSE storage' = NoStorage /\ UNCHANGED ctxUser
    /\ initPc' = "finish"
    /\ UNCHANGED <<authLoading, storedUser, isValid, lastOp>>
    /\ UNCHANGED <<pageVars, otherVars>>

\* setIsLoading(false)
InitFinish ==
    /\ initPc = "finish"
    /\ authLoading' = FALSE
    /\ initPc' = "done"
    /\ UNCHANGED <<storage, ctxUser, storedUser, isValid, lastOp>>
    /\ UNCHANGED <<pageVars, otherVars>>

\* The page is loaded again, by the visitor once initAuth is over or by
\* the navigation of the response interceptor, which may come before the
\* rest of initAuth has run: AuthProvider mounts anew.
Remount ==
    /\ initPc = "done" \/ lastOp = [op |-> "unauthorized"]
    /\ lastOp' = [op |-> "none"]
    /\ ctxUser' = JsNull
    /\ authLoading' = TRUE
    /\ initPc' = "start"
    /\ storedUser' = JsNull
    /\ isValid' = "unset"
    /\ UNCHANGED storage
    /\ UNCHANGED <<pageVars, otherVars>>

NextMount ==
    \/ InitRead
    \/ \E outcome \in ValidateOutcomes : ValidateRespond(outcome)
    \/ InitApply
    \/ InitFinish
    \/ Remount

SpecMount == InitMount /\ [][NextMount]_vars

\* The validation request ends (it times out after 30 s) and every step of
\* initAuth is taken.
SpecMountFair == SpecMount /\ WF_vars(NextMount)

(******************** a caller with its own baseline **********************)
\* Baseline references a caller may have in mind: the module's own, and
\* two others.  calculateCareScore has the sample as its only parameter.
Baselines ==
    { [ heartRate     |-> 70 * Unit,
        hrv           |-> 65 * Unit,
        sleepDuration |-> (15 * Unit) \div 2,
        breathingRate |-> 14 * Unit,
        systolicBP    |-> 120 * Unit,
        diastolicBP   |-> 80 * Unit,
        bloodSugar    |-> 90 * Unit ],
      [ heartRate     |-> 60 * Unit,
        hrv           |-> 65 * Unit,
        sleepDuration |-> (15 * Unit) \div 2,
        breathingRate |-> 14 * Unit,
        systolicBP    |-> 120 * Unit,
        diastolicBP   |-> 80 * Unit,
        bloodSugar    |-> 90 * Unit ],
      [ heartRate     |-> 80 * Unit,
        hrv           |-> 50 * Unit,
        sleepDuration |-> 6 * Unit,
        breathingRate |-> 17 * Unit,
        systolicBP    |-> 120 * Unit,
        diastolicBP   |-> 80 * Unit,
        bloodSugar    |-> 90 * Unit ] }

(**************************** state machine *******************************)
\* metric  : the sample under study, the argument of Call
\* result  : what the latest Call returned
\* earlier : what the Call before it returned
\* between : what the latest call on another sample returned
Init ==
    /\ metric \in Samples
    /\ result = NoResult
    /\ earlier = NoResult
    /\ between = NoResult
    /\ SimIdle
    /\ rng = 0
    /\ ExtIdle
    /\ supplied = BASELINE

\* calculateCareScore(metric), Math.random() yielding rnd / RandSteps.
Call(rnd) ==
    /\ result' = calculateCareScore(metric, rnd)
    /\ earlier' = result
    /\ UNCHANGED <<metric, between, simVars, supplied, extVars>>

Next == \E rnd \in RandomDraws : Call(rnd)

Spec == Init /\ [][Next]_vars

\* The same calls, with calls on other samples made between them.
StudySamples ==
    { s \in Samples :
        /\ s.breathingRate = 18 * Unit
        /\ s.systolicBP = 135 * Unit
        /\ s.bloodSugar = 90 * Unit }

InitCalls ==
    /\ metric \in StudySamples
    /\ result = NoResult
    /\ earlier = NoResult
    /\ between = NoResult
    /\ SimIdle
    /\ rng = 0
    /\ ExtIdle
    /\ supplied = BASELINE

\* calculateCareScore(other) on another sample, after a first Call.
CallOther(other, rnd) ==
    /\ result # NoResult
    /\ other # metric
    /\ between' = calculateCareScore(other, rnd)
    /\ UNCHANGED <<metric, result, earlier, simVars, supplied, extVars>>

\* Calls by a caller that has the baseline `supplied` in mind.
InitBaseline ==
    /\ supplied \in Baselines
    /\ metric \in StudySamples
    /\ result = NoResult
    /\ earlier = NoResult
    /\ between = NoResult
    /\ SimIdle
    /\ rng = 0
    /\ ExtIdle

SpecBaseline == InitBaseline /\ [][Next]_vars

(************************** calls on two samples **************************)
\* The samples a pair starts from: every heart rate, hrv and sleep
\* duration, the other scored fields all at their lowest or all at their
\* highest value.
PairSamples ==
    { s \in Samples :
        \/ /\ s.breathingRate = 14 * Unit
           /\ s.systolicBP = 120 * Unit
           /\ s.bloodSugar = 90 * Unit
           /\ s.symptoms = << >>
        \/ /\ s.breathingRate = 18 * Unit
           /\ s.systolicBP = 135 * Unit
           /\ s.bloodSugar = 120 * Unit
           /\ s.symptoms = <<"Fatigue", "Mild Dizziness">> }

\* Samples that differ from m in fields calculateCareScore does not read
\* (date, diastolicBP, activityLevel), or in which symptoms a non-empty list
\* holds.
UnscoredVariants(m) ==
    { [m EXCEPT !.date = d, !.diastolicBP = p, !.activityLevel = a,
                !.symptoms = y] :
        d \in {FirstDay, FirstDay + 1},
        p \in {80 * Unit, 95 * Unit},
        a \in {8000 * Unit, 2000 * Unit},
        y \in IF m.symptoms = << >> THEN {<< >>}
              ELSE SymptomLists \ {<< >>} } \ {m}

\* Samples equal to m except that one scored field is further from health.
WorseVariants(m) ==
         { [m EXCEPT !.heartRate = h] :
               h \in {x \in HeartRates : x > m.heartRate} }
    \cup { [m EXCEPT !.hrv = h] : h \in {x \in Hrvs : x < m.hrv} }
    \cup { [m EXCEPT !.sleepDuration = h] :
               h \in {x \in SleepDurations : x < m.sleepDuration} }
    \cup { [m EXCEPT !.breathingRate = h] :
               h \in {x \in BreathingRates : x > m.breathingRate} }
    \cup { [m EXCEPT !.systolicBP = h] :
               h \in {x \in SystolicBPs : x > m.systolicBP} }
    \cup { [m EXCEPT !.bloodSugar = h] :
               h \in {x \in BloodSugars : x > m.bloodSugar} }
    \cup { [m EXCEPT !.symptoms = h] :
               h \in {x \in SymptomLists : m.symptoms = << >> /\ x # << >>} }

InitPair ==
    /\ metric \in PairSamples
    /\ second \in UnscoredVariants(metric) \cup WorseVariants(metric)
    /\ result = NoResult
    /\ earlier = NoResult
    /\ between = NoResult
    /\ resultSecond = NoResult
    /\ DashIdle
    /\ AuthIdle
    /\ SimIdle
    /\ rng = 0
    /\ supplied = BASELINE

\* calculateCareScore(metric), one of the two calls of a pair.
CallFirst(rnd) ==
    /\ result' = calculateCareScore(metric, rnd)
    /\ UNCHANGED <<metric, earlier, between, simVars, supplied, extVars>>

\* calculateCareScore(second), the other call.
CallSecond(rnd) ==
    /\ resultSecond' = calculateCareScore(second, rnd)
    /\ UNCHANGED <<scoreVars, simVars, supplied, second, dashVars, authVars>>

NextPair ==
    \/ \E rnd \in RandomDraws : CallFirst(rnd)
    \/ \E rnd \in RandomDraws : CallSecond(rnd)

SpecPair == InitPair /\ [][NextPair]_vars

(********************* the last sample of a series ************************)
\* The last iteration of generateSimulationData's loop with any eight draws
\* of Math.random(), followed by calculateCareScore on the sample it pushed
\* (loadSimulationData's latest).
InitLast ==
    /\ metric = NoResult
    /\ result = NoResult
    /\ earlier = NoResult
    /\ between = NoResult
    /\ SimIdle
    /\ rng = 0
    /\ ExtIdle
    /\ supplied = BASELINE

GenerateLast(r) ==
    /\ metric = NoResult
    /\ metric' = sampleWith(Days - 1, clock, r)
    /\ UNCHANGED <<result, earlier, between, simVars, supplied, extVars>>

ScoreLast(rnd) ==
    /\ metric # NoResult
    /\ CallFirst(rnd)

NextLast ==
    \/ metric = NoResult /\ \E r \in [0 .. 7 -> RandomDraws] : GenerateLast(r)
    \/ metric # NoResult /\ \E rnd \in RandomDraws : ScoreLast(rnd)

SpecLast == InitLast /\ [][NextLast]_vars

NextCalls ==
    \/ \E rnd \in RandomDraws : Call(rnd)
    \/ \E other \in OtherSamples, rnd \in RandomDraws : CallOther(other, rnd)

SpecCalls == InitCalls /\ [][NextCalls]_vars

(******************************* claims ***********************************)
Returned == result # NoResult

\* What Math.round is applied to, from the returned breakdown (scale SC).
ComponentSum(r) ==
      r.breakdown.severity + r.breakdown.persistence
    + SC * r.breakdown.crossSignal + SC * r.breakdown.manualModifier

\* The fields of a result other than confidence.
DeterministicFields(r) ==
    [ severity       |-> r.breakdown.severity,
      persistence    |-> r.breakdown.persistence,
      crossSignal    |-> r.breakdown.crossSignal,
      manualModifier |-> r.breakdown.manualModifier,
      total          |-> r.breakdown.total,
      currentScore   |-> r.currentScore,
      status         |-> r.status,
      driftDetected  |-> r.driftDetected,
      stability      |-> r.stability ]

C2_TotalIsRoundedSum ==
    Returned =>
        /\ result.currentScore = result.breakdown.total
        /\ 2 * (SC * result.breakdown.total - ComponentSum(result)) <= SC
        /\ 2 * (ComponentSum(result) - SC * result.breakdown.total) <= SC
        /\ result.breakdown.total \in 0 .. 100

\* A sum whose fractional part is above one half was rounded up.
C2_Witness ==
    /\ Returned
    /\ 2 * (ComponentSum(result) % SC) > SC
    /\ SC * result.breakdown.total > ComponentSum(result)

\* C3: status is Stable exactly when total <= 30, Mild exactly when
\* 30 < total <= 50, Moderate exactly when 50 < total <= 70 and High exactly
\* when total > 70.
C3_StatusPartition ==
    Returned =>
        LET t == result.breakdown.total IN
        /\ result.status \in {"Stable", "Mild", "Moderate", "High"}
        /\ result.status = "Stable" <=> t <= 30
        /\ result.status = "Mild" <=> (30 < t /\ t <= 50)
        /\ result.status = "Moderate" <=> (50 < t /\ t <= 70)
        /\ result.status = "High" <=> t > 70

\* A total of exactly 50 was classified Mild.
C3_Witness ==
    /\ Returned
    /\ result.breakdown.total = 50
    /\ result.status = "Mild"

\* C4: severity = min(40, 5 * (hrDev + hrvDev + sleepDev)) with
\* hrDev = max(0, (heartRate - 70) / 10), hrvDev = max(0, (65 - hrv) / 10),
\* sleepDev = max(0, 7.5 - sleepDuration); a metric on the healthy side of
\* its baseline contributes 0.
C4_SeverityFormula ==
    Returned =>
        LET hd == IF metric.heartRate > 70 * Unit
                  THEN metric.heartRate - 70 * Unit ELSE 0
            vd == IF metric.hrv < 65 * Unit
                  THEN 65 * Unit - metric.hrv ELSE 0
            sd == IF 2 * metric.sleepDuration < 15 * Unit
                  THEN 5 * (15 * Unit - 2 * metric.sleepDuration) ELSE 0
            s  == 5 * (hd + vd + sd)
        IN  result.breakdown.severity = (IF s > 40 * SC THEN 40 * SC ELSE s)

\* A heart rate below the baseline was scored together with an hrv below
\* the baseline, the cap not being active.
C4_Witness ==
    /\ Returned
    /\ metric.heartRate < 70 * Unit
    /\ metric.hrv < 65 * Unit
    /\ result.breakdown.severity > 0
    /\ result.breakdown.severity < 40 * SC

\* C5: persistence = min(25, 0.6 * severity) of the capped severity of the
\* sample scored; results of equal severity have equal persistence, whatever
\* was scored before.
C5_PersistenceFormula ==
    /\ Returned =>
          10 * result.breakdown.persistence =
              (IF 6 * result.breakdown.severity > 250 * SC
               THEN 250 * SC ELSE 6 * result.breakdown.severity)
    /\ between # NoResult =>
          10 * between.breakdown.persistence =
              (IF 6 * between.breakdown.severity > 250 * SC
               THEN 250 * SC ELSE 6 * between.breakdown.severity)
    /\ (Returned /\ between # NoResult
          /\ between.breakdown.severity = result.breakdown.severity) =>
          between.breakdown.persistence = result.breakdown.persistence
    /\ (Returned /\ earlier # NoResult) =>
          earlier.breakdown.persistence = result.breakdown.persistence

\* Two different samples of severity 15 were scored, both with persistence 9.
C5_Witness ==
    /\ Returned
    /\ between # NoResult
    /\ metric.heartRate = 70 * Unit
    /\ result.breakdown.severity = 15 * SC
    /\ between.breakdown.severity = 15 * SC
    /\ result.breakdown.persistence = 9 * SC

\* C6: crossSignal is 5 times the number of the conditions heartRate > 75,
\* hrv < 60, sleepDuration < 6.5, breathingRate > 16 that hold; a value at
\* its threshold does not count; the result is one of 0, 5, 10, 15, 20.
C6_CrossSignalCount ==
    Returned =>
        LET n ==   (IF metric.heartRate > 75 * Unit THEN 1 ELSE 0)
                 + (IF metric.hrv < 60 * Unit THEN 1 ELSE 0)
                 + (IF 2 * metric.sleepDuration < 13 * Unit THEN 1 ELSE 0)
                 + (IF metric.breathingRate > 16 * Unit THEN 1 ELSE 0)
        IN  /\ result.breakdown.crossSignal = 5 * n
            /\ result.breakdown.crossSignal \in {0, 5, 10, 15, 20}

\* All four metrics exactly at their thresholds were scored as no signal.
C6_Witness ==
    /\ Returned
    /\ metric.heartRate = 75 * Unit
    /\ metric.hrv = 60 * Unit
    /\ 2 * metric.sleepDuration = 13 * Unit
    /\ metric.breathingRate = 16 * Unit
    /\ result.breakdown.crossSignal = 0

\* C7: manualModifier is 5 times the number of the conditions
\* systolicBP > 130, bloodSugar > 110, symptoms non-empty that hold; it is
\* one of 0, 5, 10, 15, and further symptoms add nothing.
C7_ManualModifierCount ==
    Returned =>
        LET n ==   (IF metric.systolicBP > 130 * Unit THEN 1 ELSE 0)
                 + (IF metric.bloodSugar > 110 * Unit THEN 1 ELSE 0)
                 + (IF metric.symptoms # << >> THEN 1 ELSE 0)
        IN  /\ result.breakdown.manualModifier = 5 * n
            /\ result.breakdown.manualModifier \in {0, 5, 10, 15}

\* systolicBP 130, bloodSugar 110 and two symptoms were scored as 5.
C7_Witness ==
    /\ Returned
    /\ metric.systolicBP = 130 * Unit
    /\ metric.bloodSugar = 110 * Unit
    /\ Len(metric.symptoms) = 2
    /\ result.breakdown.manualModifier = 5

\* C8: driftDetected is true exactly when total > 30, hence exactly when
\* status is not Stable.
C8_DriftIffAbove30 ==
    Returned =>
        /\ result.driftDetected \in BOOLEAN
        /\ result.driftDetected <=> result.breakdown.total > 30
        /\ result.driftDetected <=> result.status # "Stable"

\* A total of exactly 30 was returned without drift.
C8_Witness ==
    /\ Returned
    /\ result.breakdown.total = 30
    /\ ~ result.driftDetected
    /\ result.status = "Stable"

\* C9: stability = max(0, 100 - totalScore), so it is never negative.
C9_StabilityFormula ==
    Returned =>
        /\ result.stability =
              (IF result.currentScore < 100 THEN 100 - result.currentScore
               ELSE 0)
        /\ result.stability >= 0

\* The highest score was returned with its stability.
C9_Witness ==
    /\ Returned
    /\ result.currentScore = 99
    /\ result.stability = 1

\* C10: two calls on the same sample agree on every field but confidence,
\* whatever Math.random() yields and whatever was scored in between.
C10_SameSampleSameScore ==
    (Returned /\ earlier # NoResult) =>
        DeterministicFields(earlier) = DeterministicFields(result)

\* Two calls on one sample drew different random values, another sample
\* having been scored as well.
C10_Witness ==
    /\ Returned
    /\ earlier # NoResult
    /\ between # NoResult
    /\ earlier.confidence # result.confidence


\* C11: the sample exactly at the baseline scores severity 0, persistence 0,
\* crossSignal 0, manualModifier 0, total 0, status Stable and no drift.
C11_BaselineSampleScoresZero ==
    ( /\ Returned
      /\ metric.heartRate = 70 * Unit
      /\ metric.hrv = 65 * Unit
      /\ 2 * metric.sleepDuration = 15 * Unit
      /\ metric.breathingRate = 14 * Unit
      /\ metric.systolicBP = 120 * Unit
      /\ metric.diastolicBP = 80 * Unit
      /\ metric.bloodSugar = 90 * Unit
      /\ metric.symptoms = << >> ) =>
        /\ result.breakdown.severity = 0
        /\ result.breakdown.persistence = 0
        /\ result.breakdown.crossSignal = 0
        /\ result.breakdown.manualModifier = 0
        /\ result.breakdown.total = 0
        /\ result.currentScore = 0
        /\ result.status = "Stable"
        /\ result.driftDetected = FALSE

\* The baseline sample was scored.
C11_Witness ==
    /\ Returned
    /\ metric.heartRate = 70 * Unit
    /\ metric.hrv = 65 * Unit
    /\ 2 * metric.sleepDuration = 15 * Unit
    /\ metric.breathingRate = 14 * Unit
    /\ metric.systolicBP = 120 * Unit
    /\ metric.diastolicBP = 80 * Unit
    /\ metric.bloodSugar = 90 * Unit
    /\ metric.symptoms = << >>
    /\ result.breakdown.total = 0

\* C12: heartRate 100, hrv 45, sleepDuration 5.5, breathingRate 18,
\* systolicBP 135, bloodSugar 120, symptoms [Fatigue] scores severity 35,
\* persistence 21, crossSignal 20, manualModifier 15, total 91, status High
\* and drift.
C12_LiteralHighSample ==
    ( /\ Returned
      /\ metric.heartRate = 100 * Unit
      /\ metric.hrv = 45 * Unit
      /\ 2 * metric.sleepDuration = 11 * Unit
      /\ metric.breathingRate = 18 * Unit
      /\ metric.systolicBP = 135 * Unit
      /\ metric.bloodSugar = 120 * Unit
      /\ metric.symptoms = <<"Fatigue">> ) =>
        /\ result.breakdown.severity = 35 * SC
        /\ result.breakdown.persistence = 21 * SC
        /\ result.breakdown.crossSignal = 20
        /\ result.breakdown.manualModifier = 15
        /\ result.breakdown.total = 91
        /\ result.currentScore = 91
        /\ result.status = "High"
        /\ result.driftDetected = TRUE

\* That sample was scored.
C12_Witness ==
    /\ Returned
    /\ metric.heartRate = 100 * Unit
    /\ metric.hrv = 45 * Unit
    /\ 2 * metric.sleepDuration = 11 * Unit
    /\ metric.breathingRate = 18 * Unit
    /\ metric.systolicBP = 135 * Unit
    /\ metric.bloodSugar = 120 * Unit
    /\ metric.symptoms = <<"Fatigue">>
    /\ result.breakdown.total = 91

(********************** claims on the simulation **************************)
\* The addresses of the series generateSimulationData has returned.
SeriesAddresses == {a \in 1 .. Len(heap) : heap[a].kind = "series"}

\* The addresses of the results calculateCareScore has returned.
ResultAddresses == {a \in 1 .. Len(heap) : heap[a].kind = "result"}

\* Every series returned so far, and the one under construction.
AllSeries == {heap[a].items : a \in SeriesAddresses} \cup {data}

\* C13: every returned series has exactly 60 samples, oldest first, each
\* date one calendar day after the one before, and the last date is the
\* current date.
C13_SixtyConsecutiveDaysToToday ==
    /\ \A a \in SeriesAddresses :
          LET s == heap[a].items IN
          /\ Len(s) = 60
          /\ \A k \in 1 .. Len(s) - 1 : s[k + 1].date = s[k].date + 1
    /\ pc = "score" => heap[simData].items[60].date = clock

\* C14: the drift factor of index i is 0 for i <= 30 and (i - 30) / 30 for
\* i > 30; it never decreases and it increases strictly from i = 30 on.
C14_DriftFactorFormula ==
    \A k \in 1 .. Len(drifts) :
        LET idx == k - 1 IN
        /\ idx <= 30 => drifts[k] = 0
        /\ idx > 30 => 30 * drifts[k] = (idx - 30) * Unit
        /\ k > 1 => drifts[k] >= drifts[k - 1]
        /\ (k > 1 /\ idx - 1 >= 30) => drifts[k] > drifts[k - 1]

\* The whole loop has run.
C14_Witness ==
    /\ pc = "score"
    /\ Len(drifts) = 60
    /\ drifts[31] = 0
    /\ drifts[32] > 0

\* C15 as stated: the drift factor is positive on exactly the last 30
\* samples and is 1 at the most recent sample.
C15_RampToOneOverLast30 ==
    Len(drifts) = 60 =>
        /\ \A k \in 1 .. 60 : drifts[k] > 0 <=> k > 60 - 30
        /\ drifts[60] = Unit

\* C15 amended: the drift factor is positive on exactly the last 29 samples
\* (i = 31 .. 59), grows by 1/30 per sample from i = 30 on and is 29/30 at
\* the most recent sample.
C15_RampOverLast29 ==
    Len(drifts) = 60 =>
        /\ \A k \in 1 .. 60 : drifts[k] > 0 <=> k > 60 - 29
        /\ \A k \in 32 .. 60 : 30 * (drifts[k] - drifts[k - 1]) = Unit
        /\ 30 * drifts[60] = 29 * Unit

\* A whole window has been generated; the sample of index 30 has no drift.
C15_Witness ==
    /\ Len(drifts) = 60
    /\ Len(data) = 60
    /\ drifts[31] = 0
    /\ 30 * drifts[60] = 29 * Unit

\* C16: symptoms is empty for every index i <= 45 and the same two items for
\* every i > 45, which are exactly the last 14 samples of a series.
C16_SymptomsInLast14 ==
    /\ \A s \in AllSeries : \A k \in 1 .. Len(s) :
          /\ k - 1 <= 45 => s[k].symptoms = << >>
          /\ k - 1 > 45 => s[k].symptoms = <<"Fatigue", "Mild Dizziness">>
    /\ \A a \in SeriesAddresses :
          LET s == heap[a].items IN
          /\ \A k \in 1 .. Len(s) : s[k].symptoms # << >> <=> k > Len(s) - 14
          /\ Cardinality({k \in 1 .. Len(s) : s[k].symptoms # << >>}) = 14

\* A series has been returned.
C16_Witness ==
    /\ SeriesAddresses # {}
    /\ pc = "score"
    /\ heap[simData].items[46].symptoms = << >>
    /\ heap[simData].items[47].symptoms # << >>


\* value (grid units) lies within scale / 2 of base2 / 2 + amp * df30 / 30.
NearRamp(value, base2, amp, scale, df30) ==
    LET d == 60 * value - 30 * base2 * Unit - 2 * amp * df30 * Unit
    IN  d <= 30 * scale * Unit /\ - d <= 30 * scale * Unit

\* C17: every generated metric is its base value shifted by driftFactor times
\* its amplitude plus a noise of magnitude at most half its noise scale; for
\* i <= 30 it differs from the base value by the noise only; sleepDuration is
\* never below 4.  Stated of each sample when it has just been pushed.
C17_MetricsFollowRamp ==
    \A k \in {Len(data)} \ {0} :
        LET df30 == IF k - 1 > 30 THEN k - 1 - 30 ELSE 0
            m    == data[k]
        IN  /\ NearRamp(m.heartRate, 140, 15, 5, df30)
            /\ NearRamp(m.hrv, 130, -20, 10, df30)
            /\ NearRamp(m.sleepDuration, 15, -2, 1, df30)
            /\ NearRamp(m.activityLevel, 16000, -3000, 2000, df30)
            /\ NearRamp(m.breathingRate, 28, 4, 2, df30)
            /\ NearRamp(m.systolicBP, 240, 10, 5, df30)
            /\ NearRamp(m.diastolicBP, 160, 5, 5, df30)
            /\ NearRamp(m.bloodSugar, 180, 15, 10, df30)
            /\ m.sleepDuration >= 4 * Unit
            /\ k - 1 <= 30 =>
                  /\ NearRamp(m.heartRate, 140, 0, 5, 0)
                  /\ NearRamp(m.hrv, 130, 0, 10, 0)
                  /\ NearRamp(m.sleepDuration, 15, 0, 1, 0)
                  /\ NearRamp(m.activityLevel, 16000, 0, 2000, 0)
                  /\ NearRamp(m.breathingRate, 28, 0, 2, 0)
                  /\ NearRamp(m.systolicBP, 240, 0, 5, 0)
                  /\ NearRamp(m.diastolicBP, 160, 0, 5, 0)
                  /\ NearRamp(m.bloodSugar, 180, 0, 10, 0)

\* The last sample of a window has just been pushed; its heart rate is above
\* the ramp (positive noise) and its sleepDuration at the lower end of its
\* noise band (7.5 - 2 * 29/30 - 0.5), which is above 4.
C17_Witness ==
    /\ Len(data) = 60
    /\ 2 * data[60].heartRate > 2 * 70 * Unit + 29 * Unit
    /\ 30 * data[60].sleepDuration = 225 * Unit - 58 * Unit - 15 * Unit

\* C18: the baseline object, the input sample and every object of another
\* call are left as they are by generateSimulationData and by
\* calculateCareScore, which return objects that did not exist before; the
\* caller's assignment of result.trends changes that result only.
C18_CallsLeaveOtherObjectsAlone ==
    [][ /\ Len(heap') >= Len(heap)
        /\ heap'[1] = BaselineObject
        /\ \A a \in 1 .. Len(heap) :
              heap'[a] # heap[a] =>
                  /\ pc = "attach"
                  /\ a = scored
                  /\ heap[a].kind = "result"
                  /\ heap[a].by = loads + 1
                  /\ heap'[a] = [heap[a] EXCEPT !.value.trends = simData]
        /\ (pc = "gen" /\ pc' = "score") => simData' > Len(heap)
        /\ (pc = "score" /\ pc' = "attach") =>
              /\ scored' > Len(heap)
              /\ heap'[scored'].value.trends > Len(heap)
              /\ heap'[scored'].value.trends # scored'
      ]_vars

\* Two loads have been made; each has its own series and its own result,
\* and the first result still refers to the first series.
C18_Witness ==
    /\ loads = 2
    /\ pc = "idle"
    /\ Cardinality(SeriesAddresses) = 2
    /\ Cardinality(ResultAddresses) = 2
    /\ \A a \in ResultAddresses :
          /\ heap[a].value.trends \in SeriesAddresses
          /\ heap[heap[a].value.trends].by = heap[a].by

\* C20: calculateCareScore returns an empty trends list; after a load of the
\* simulation the stored analysis is the score of the last sample (index 59)
\* of one generated series of 60 samples, its trends is that series, and the
\* charted data is the projection of that same series.
C20_AnalysisOfOneSeries ==
    /\ pc = "attach" =>
          /\ heap[heap[scored].value.trends].kind = "array"
          /\ heap[heap[scored].value.trends].items = << >>
    /\ (pc = "idle" /\ analysis # Null) =>
          LET r == heap[analysis].value
              s == heap[r.trends]
          IN  /\ s.kind = "series"
              /\ r.trends = simData
              /\ Len(s.items) = 60
              /\ DeterministicFields(r) =
                    DeterministicFields(calculateCareScore(s.items[60], 0))
              /\ chart = DisplayData(s.items)

\* A load of the simulation has completed.
C20_Witness ==
    /\ pc = "idle"
    /\ loads = 1
    /\ analysis # Null
    /\ heap[analysis].value.trends = simData
    /\ Len(chart) = 60


(************************ claims on the baseline **************************)
\* C19 as stated: every deviation and threshold is measured against the
\* baseline the caller supplies.
C19_ScoredAgainstSuppliedBaseline ==
    Returned =>
        LET hd == MathMax(0, metric.heartRate - supplied.heartRate)
            vd == MathMax(0, supplied.hrv - metric.hrv)
            sd == MathMax(0, 10 * (supplied.sleepDuration
                                     - metric.sleepDuration))
            n  ==   (IF metric.heartRate > supplied.heartRate + 5 * Unit
                     THEN 1 ELSE 0)
                  + (IF metric.hrv < supplied.hrv - 5 * Unit THEN 1 ELSE 0)
                  + (IF metric.sleepDuration
                          < supplied.sleepDuration - 1 * Unit
                     THEN 1 ELSE 0)
                  + (IF metric.breathingRate
                          > supplied.breathingRate + 2 * Unit
                     THEN 1 ELSE 0)
        IN  /\ result.breakdown.severity = MathMin(40 * SC, 5 * (hd + vd + sd))
            /\ result.breakdown.crossSignal = 5 * n

\* C19 amended: the scoring has the sample as its only argument and measures
\* every deviation and threshold against the module-level BASELINE
\* (heartRate 70, hrv 65, sleepDuration 7.5, breathingRate 14), whatever
\* baseline the caller has in mind.
C19_ScoredAgainstModuleBaseline ==
    Returned =>
        LET hd == MathMax(0, metric.heartRate - 70 * Unit)
            vd == MathMax(0, 65 * Unit - metric.hrv)
            sd == MathMax(0, 5 * (15 * Unit - 2 * metric.sleepDuration))
            n  ==   (IF metric.heartRate > 75 * Unit THEN 1 ELSE 0)
                  + (IF metric.hrv < 60 * Unit THEN 1 ELSE 0)
                  + (IF 2 * metric.sleepDuration < 13 * Unit THEN 1 ELSE 0)
                  + (IF metric.breathingRate > 16 * Unit THEN 1 ELSE 0)
        IN  /\ result.breakdown.severity = MathMin(40 * SC, 5 * (hd + vd + sd))
            /\ result.breakdown.crossSignal = 5 * n
            /\ DeterministicFields(result)
                 = DeterministicFields(calculateCareScore(metric, 0))

\* A caller with a heart-rate baseline of 60 had a heart rate of 76 scored:
\* the deviation counted is 0.6 (against 70), not 1.6.
C19_Witness ==
    /\ Returned
    /\ supplied.heartRate = 60 * Unit
    /\ metric.heartRate = 76 * Unit
    /\ metric.hrv = 65 * Unit
    /\ 2 * metric.sleepDuration = 15 * Unit
    /\ result.breakdown.severity = 3 * SC


(************************ claims on derived bounds ************************)
\* C24: persistence never exceeds 24 and the total never exceeds 99, so
\* 100 - total is positive (the Math.max(0, ...) of stability never acts),
\* stability is at least 1 and stability + currentScore = 100.
C24_StabilityClampNeverActive ==
    Returned =>
        /\ result.breakdown.persistence <= 24 * SC
        /\ result.breakdown.total <= 99
        /\ result.currentScore <= 99
        /\ 100 - result.currentScore > 0
        /\ result.stability >= 1
        /\ result.stability + result.currentScore = 100

\* The largest score: severity at its cap, persistence 24, every signal and
\* every manual condition.
C24_Witness ==
    /\ Returned
    /\ result.breakdown.severity = 40 * SC
    /\ result.breakdown.persistence = 24 * SC
    /\ result.breakdown.crossSignal = 20
    /\ result.breakdown.manualModifier = 15
    /\ result.stability = 1

\* C25: a sample with heartRate <= 70, hrv >= 65 and sleepDuration >= 7.5
\* has severity 0, persistence 0, crossSignal <= 5 and total <= 20, is
\* Stable and has no drift, whatever its other fields; whenever severity
\* is 0 the status is Stable.
C25_NoDeviationIsStable ==
    Returned =>
        /\ ( /\ metric.heartRate <= 70 * Unit
             /\ metric.hrv >= 65 * Unit
             /\ 2 * metric.sleepDuration >= 15 * Unit )
           => /\ result.breakdown.severity = 0
              /\ result.breakdown.persistence = 0
              /\ result.breakdown.crossSignal <= 5
              /\ result.breakdown.total <= 20
              /\ result.status = "Stable"
              /\ result.driftDetected = FALSE
        /\ result.breakdown.severity = 0
           => /\ result.breakdown.crossSignal
                   + result.breakdown.manualModifier <= 20
              /\ result.status = "Stable"

\* No deviation, but the breathing signal and all three manual conditions.
C25_Witness ==
    /\ Returned
    /\ metric.heartRate <= 70 * Unit
    /\ metric.hrv >= 65 * Unit
    /\ 2 * metric.sleepDuration >= 15 * Unit
    /\ result.breakdown.crossSignal = 5
    /\ result.breakdown.manualModifier = 15
    /\ result.currentScore = 20

(************************ claims on pairs of samples **********************)
BothReturned == result # NoResult /\ resultSecond # NoResult

\* The two samples agree on every field calculateCareScore reads, their
\* symptom lists being both empty or both non-empty.
DifferOnlyInUnscored ==
    /\ second.heartRate = metric.heartRate
    /\ second.hrv = metric.hrv
    /\ second.sleepDuration = metric.sleepDuration
    /\ second.breathingRate = metric.breathingRate
    /\ second.systolicBP = metric.systolicBP
    /\ second.bloodSugar = metric.bloodSugar
    /\ (second.symptoms = << >>) <=> (metric.symptoms = << >>)

\* C26: two samples that differ only in date, diastolicBP, activityLevel or
\* in which symptoms their non-empty lists hold get the same severity,
\* persistence, crossSignal, manualModifier, total, status, driftDetected
\* and stability.
C26_UnscoredFieldsDoNotMatter ==
    (BothReturned /\ DifferOnlyInUnscored) =>
        DeterministicFields(result) = DeterministicFields(resultSecond)

\* Both samples of a pair that differs in date, diastolicBP, activityLevel
\* and symptoms have been scored.
C26_Witness ==
    /\ BothReturned
    /\ DifferOnlyInUnscored
    /\ second.date # metric.date
    /\ second.diastolicBP # metric.diastolicBP
    /\ second.activityLevel # metric.activityLevel
    /\ second.symptoms # metric.symptoms
    /\ result.breakdown.manualModifier = 15

StatusRank(status) ==
    CASE status = "Stable"   -> 0
      [] status = "Mild"     -> 1
      [] status = "Moderate" -> 2
      [] status = "High"     -> 3

\* The second sample is at least as far from health as the first in every
\* scored input, and equal to it otherwise.
SecondIsWorse ==
    /\ second.heartRate >= metric.heartRate
    /\ second.hrv <= metric.hrv
    /\ second.sleepDuration <= metric.sleepDuration
    /\ second.breathingRate >= metric.breathingRate
    /\ second.systolicBP >= metric.systolicBP
    /\ second.bloodSugar >= metric.bloodSugar
    /\ (metric.symptoms # << >>) => (second.symptoms # << >>)

\* C27: raising heartRate, breathingRate, systolicBP or bloodSugar, lowering
\* hrv or sleepDuration, or reporting symptoms never lowers the total score
\* nor the status class.
C27_TotalIsMonotone ==
    (BothReturned /\ SecondIsWorse) =>
        /\ resultSecond.currentScore >= result.currentScore
        /\ resultSecond.breakdown.total >= result.breakdown.total
        /\ StatusRank(resultSecond.status) >= StatusRank(result.status)

\* A shorter sleep alone moved a sample from Stable to a higher class.
C27_Witness ==
    /\ BothReturned
    /\ second.sleepDuration < metric.sleepDuration
    /\ second = [metric EXCEPT !.sleepDuration = second.sleepDuration]
    /\ result.status = "Stable"
    /\ StatusRank(resultSecond.status) > 0

(************************ claims on the last sample ***********************)
\* C28: whatever Math.random() yields, the last sample of a generated series
\* has a bloodSugar of at most 110 and scores crossSignal 20, manualModifier
\* 5 or 10, a total above 50, status Moderate or High and driftDetected
\* true.
C28_LastSampleModerateOrHigh ==
    /\ metric # NoResult => metric.bloodSugar <= 110 * Unit
    /\ Returned =>
          /\ result.breakdown.crossSignal = 20
          /\ result.breakdown.manualModifier \in {5, 10}
          /\ result.currentScore > 50
          /\ result.status \in {"Moderate", "High"}
          /\ result.driftDetected = TRUE

\* A last sample with the lowest heart rate and a systolic pressure above
\* 130 has been scored.
C28_Witness ==
    /\ Returned
    /\ metric.date = clock
    /\ 2 * metric.heartRate = 2 * 70 * Unit + 29 * Unit - 5 * Unit
    /\ metric.systolicBP > 130 * Unit
    /\ result.breakdown.manualModifier = 10

(************************ claims on the Dashboard *************************)
\* The backend branch ran to its end: a user id, a summary with a
\* care_score that has its components, and a trends body that is absent or
\* has a list.
BackendServed ==
    /\ userId # 0
    /\ summaryData # JsNull
    /\ summaryData.care_score # JsNull
    /\ summaryData.care_score.components # JsNull
    /\ ~ (trendsData # JsNull /\ trendsData.trends = JsNull)

\* The analysis is the score of the last sample of the series simData, which
\* is its trends.
AnalysisFromSimulation ==
    /\ analysis # Null
    /\ simData # Null
    /\ heap[analysis].value.trends = simData
    /\ DeterministicFields(heap[analysis].value)
         = DeterministicFields(
             calculateCareScore(latestOf(heap[simData].items), 0))

\* The analysis holds the backend's care_score: its score, components and
\* status as they are, 85 for a missing confidence and 100 - score for a
\* missing stability, with an empty trends list.
AnalysisFromBackend ==
    /\ analysis # Null
    /\ LET r == heap[analysis].value
           c == summaryData.care_score
       IN  /\ r.currentScore = c.score
           /\ r.breakdown.total = c.score
           /\ r.breakdown.severity = c.components.severity
           /\ r.breakdown.persistence = c.components.persistence
           /\ r.breakdown.crossSignal = c.components.cross_signal
           /\ r.breakdown.manualModifier = c.components.manual_modifier
           /\ r.status = c.status
           /\ r.driftDetected = (c.drift_score > 30)
           /\ r.confidence
                = (IF c.confidence = 0 THEN 85 * RandSteps ELSE c.confidence)
           /\ r.stability
                = (IF c.stability = 0 THEN 100 - c.score ELSE c.stability)
           /\ heap[r.trends].kind = "array"
           /\ heap[r.trends].items = << >>

\* C21 (outcome): a finished run has isLoading false and an analysis; the
\* analysis is the backend's, with isUsingRealData true, exactly when a user
\* id exists and the summary request returned a care_score, no exception
\* having been thrown; otherwise it is the simulation's, with
\* isUsingRealData false.
DashOutcome ==
    run = "done" =>
        /\ isLoading = FALSE
        /\ analysis # Null
        /\ isUsingRealData <=> BackendServed
        /\ BackendServed => AnalysisFromBackend
        /\ ~ BackendServed => AnalysisFromSimulation
        /\ isUsingRealData =>
              (userId # 0 /\ summaryData # JsNull
                 /\ summaryData.care_score # JsNull)

\* C21: every run of loadDashboardData ends, and ends as DashOutcome says.
C21_LoadEndsWithAnalysis ==
    /\ [] DashOutcome
    /\ <> (run = "done")

\* A run that entered the backend branch, met a care_score without
\* components and ended with the simulation.
C21_Witness ==
    /\ run = "done"
    /\ userId # 0
    /\ summary # JsNull
    /\ summaryData.care_score # JsNull
    /\ summaryData.care_score.components = JsNull
    /\ isUsingRealData = FALSE
    /\ isLoading = FALSE
    /\ loads = 1

\* The chart rows of a trends list: each measurement, or the baseline value
\* (70, 65, 7.5, 8000) where it is null or 0.
ChartOfTrends(trends) ==
    [k \in 1 .. Len(trends) |->
        [ date          |-> trends[k].date,
          heartRate     |-> IF trends[k].heart_rate = 0 THEN 70 * Unit
                            ELSE trends[k].heart_rate,
          hrv           |-> IF trends[k].hrv = 0 THEN 65 * Unit
                            ELSE trends[k].hrv,
          sleepDuration |-> IF trends[k].sleep_duration = 0
                            THEN (15 * Unit) \div 2
                            ELSE trends[k].sleep_duration,
          activityLevel |-> IF trends[k].activity_level = 0 THEN 8000 * Unit
                            ELSE trends[k].activity_level ]]

\* C29 as stated: after a completed load the chart is simulated only when
\* isUsingRealData is false; when it is true the chart is the backend's
\* trend data.
C29_LiveChartIsBackendTrends ==
    (run = "done" /\ isUsingRealData) =>
        /\ trendsData # JsNull
        /\ trendsData.trends # JsNull
        /\ chart = ChartOfTrends(trendsData.trends)

\* C29 amended: when isUsingRealData is true the chart is the backend's
\* trend data if the trends request returned a non-empty list, and otherwise
\* the projection of a newly generated simulation series; when it is false
\* the chart is the projection of the simulated series of the analysis.
C29_LiveChartIsTrendsOrSimulated ==
    run = "done" =>
        /\ (isUsingRealData /\ trendsData # JsNull /\ trendsData.trends # JsNull
              /\ trendsData.trends # << >>)
           => chart = ChartOfTrends(trendsData.trends)
        /\ (isUsingRealData
              /\ (trendsData = JsNull \/ trendsData.trends = << >>))
           => \E a \in SeriesAddresses :
                 /\ chart = DisplayData(heap[a].items)
                 /\ Len(chart) = Days
        /\ ~ isUsingRealData
           => /\ simData # Null
              /\ chart = DisplayData(heap[simData].items)

\* Live Data is indicated over a simulated chart.
C29_Witness ==
    /\ run = "done"
    /\ isUsingRealData
    /\ trendsData # JsNull
    /\ trendsData.trends = << >>
    /\ Len(chart) = Days
    /\ loads = 0

(************************ claims on authService ***************************)
\* The latest completed operation is a login or signup that succeeded.
LoggedIn == lastOp.op \in {"login", "signup"} /\ lastOp.ok

\* The latest completed operation is a login or signup whose request failed.
LoginFailed == lastOp.op \in {"login", "signup"} /\ ~ lastOp.ok

SessionAfterLoginAndLogout ==
    /\ LoggedIn =>
          /\ isAuthenticated(storage)
          /\ getCurrentUser(storage) = lastOp.user
          /\ getUserId(storage) = [num |-> lastOp.user.id]
    /\ lastOp.op = "logout" =>
          /\ ~ isAuthenticated(storage)
          /\ getCurrentUser(storage) = JsNull
          /\ getUserId(storage) = JsNull

\* C22 as stated: after a successful login or signup the session is that of
\* the returned user, after logout there is none, and a failed login or
\* signup request leaves the stored session as it was.
C22_FailedLoginKeepsSession ==
    /\ SessionAfterLoginAndLogout
    /\ LoginFailed => storage = lastOp.before

\* C22 amended: a failed login or signup request leaves the stored session
\* as it was unless the response status is 401; on 401 the response
\* interceptor has removed the three items.
C22_FailedLoginKeepsSessionUnless401 ==
    /\ SessionAfterLoginAndLogout
    /\ (LoginFailed /\ lastOp.status # 401) => storage = lastOp.before
    /\ (LoginFailed /\ lastOp.status = 401) => storage = NoStorage

\* A login failed with a server error while a session with a three-digit
\* user id was stored, and the session is still there.
C22_Witness ==
    /\ LoginFailed
    /\ lastOp.status = 500
    /\ isAuthenticated(storage)
    /\ getUserId(storage) = [num |-> 120]
    /\ getCurrentUser(storage) \in Users

\* C30: pulse_api_key, pulse_user_id and pulse_user are all present or all
\* absent, and getCurrentUser() returns a user exactly when
\* isAuthenticated() is true.
C30_KeysAllOrNone ==
    /\ (storage.pulse_api_key = JsNull) <=> (storage.pulse_user_id = JsNull)
    /\ (storage.pulse_user_id = JsNull) <=> (storage.pulse_user = JsNull)
    /\ (getCurrentUser(storage) # JsNull) <=> isAuthenticated(storage)

(************************ claims on AuthProvider **************************)
\* C23 (outcome): when initAuth is over isLoading is false; the context user
\* is set, to the stored user, only if validateSession returned true; if a
\* stored user was found and validation was false or failed, nothing is
\* left in storage and the context user is null.
MountOutcome ==
    initPc = "done" =>
        /\ authLoading = FALSE
        /\ ctxUser # JsNull => (isValid = "true" /\ ctxUser = storedUser)
        /\ (storedUser # JsNull /\ isValid = "true") => ctxUser = storedUser
        /\ (storedUser # JsNull /\ isValid # "true") =>
              /\ storage = NoStorage
              /\ ctxUser = JsNull
        /\ storedUser = JsNull => ctxUser = JsNull

\* C23: after AuthProvider mounts isLoading becomes false in every case,
\* with the outcome above.
C23_MountEndsLoading ==
    /\ [] MountOutcome
    /\ (initPc = "start") ~> (initPc = "done" /\ authLoading = FALSE)

\* A stored session failed validation: it was removed
\* and nobody is signed in.
C23_Witness ==
    /\ initPc = "done"
    /\ storedUser # JsNull
    /\ isValid = "false"
    /\ storage = NoStorage
    /\ ctxUser = JsNull
    /\ authLoading = FALSE

=============================================================================
